---------------------------- MODULE Spec2Model ----------------------------
(***************************************************************************)
(* Model of the Prizm Tauri client's identity and configuration core:      *)
(*   src/prizm-tauri-client/src-tauri/src/config.rs  (PrizmConfig)         *)
(*   src/prizm-tauri-client/src-tauri/src/main.rs    (the Tauri commands)  *)
(*                                                                         *)
(* Strings that the code inspects character by character (addresses, host, *)
(* port) are sequences of one-character strings; strings the code only     *)
(* stores and compares (names, keys, flags, messages) are TLA+ strings.    *)
(***************************************************************************)
EXTENDS Integers, Sequences, FiniteSets, TLC

VARIABLES
    file,       \* the configuration file: [kind, doc, len]
    dirExists,  \* whether the configuration directory exists
    proc,       \* per caller: the command in flight, its locals and its result
    before,     \* ghost: file and directory as they were when the last call began
    history,    \* ghost: what has happened to the file so far
    ops,        \* ghost: number of commands and hand edits started so far
    resolver    \* a stand-alone evaluation of extract_host_port

vars == <<file, dirExists, proc, before, history, ops, resolver>>

(***************************************************************************)
(* Bounds of the model.                                                    *)
(***************************************************************************)
\* commands and hand edits started in one behaviour of Spec
MaxOps == 4
\* commands started in one behaviour of ConcSpec
MaxConcOps == 3
\* scheme prefixes stacked in front of an address given to the resolver
MaxPrefixes == 2

(***************************************************************************)
(* Character strings.                                                      *)
(***************************************************************************)
HttpPrefix == <<"h", "t", "t", "p", ":", "/", "/">>
HttpsPrefix == <<"h", "t", "t", "p", "s", ":", "/", "/">>
WsPrefix == <<"w", "s", ":", "/", "/">>
WssPrefix == <<"w", "s", "s", ":", "/", "/">>

DefaultHost == <<"1", "2", "7", ".", "0", ".", "0", ".", "1">>
DefaultPort == <<"4", "1", "2", "7">>

ExampleCom == <<"e", "x", "a", "m", "p", "l", "e", ".", "c", "o", "m">>
Port8080 == <<"8", "0", "8", "0">>
TenDotFive == <<"1", "0", ".", "0", ".", "0", ".", "5">>
Port9000 == <<"9", "0", "0", "0">>
HostWord == <<"h", "o", "s", "t">>
Colon == <<":">>

(***************************************************************************)
(* config.rs: the configuration value and its defaults.                    *)
(***************************************************************************)
ServerConfigDefault ==
    [host |-> DefaultHost, port |-> DefaultPort]

ClientConfigDefault ==
    [name |-> "Prizm Tauri Client",
     auto_register |-> "true",
     requested_scopes |-> <<"default">>]

TrayConfigDefault ==
    [enabled |-> "true", minimize_to_tray |-> "true", show_notification |-> "true"]

PrizmConfigDefault ==
    [server |-> ServerConfigDefault,
     client |-> ClientConfigDefault,
     api_key |-> "",
     tray |-> TrayConfigDefault]

\* the value of a local that holds no configuration yet
NoConfig ==
    [server |-> [host |-> <<>>, port |-> <<>>],
     client |-> [name |-> "", auto_register |-> "", requested_scopes |-> <<>>],
     api_key |-> "",
     tray |-> [enabled |-> "", minimize_to_tray |-> "", show_notification |-> ""]]

(***************************************************************************)
(* serde: a JSON object is a function from the field names present in the  *)
(* document to their values.  Deserialization fills each absent field from *)
(* its #[serde(default ...)] attribute; serialization writes every field.  *)
(***************************************************************************)
Has(d, f) == f \in DOMAIN d

DeserializeServer(d) ==
    [host |-> IF Has(d, "host") THEN d.host ELSE DefaultHost,
     port |-> IF Has(d, "port") THEN d.port ELSE DefaultPort]

\* requested_scopes carries a bare #[serde(default)]: Vec::default(), the empty list
DeserializeClient(d) ==
    [name |-> IF Has(d, "name") THEN d.name ELSE "Prizm Tauri Client",
     auto_register |-> IF Has(d, "auto_register") THEN d.auto_register ELSE "true",
     requested_scopes |->
         IF Has(d, "requested_scopes") THEN d.requested_scopes ELSE <<>>]

DeserializeTray(d) ==
    [enabled |-> IF Has(d, "enabled") THEN d.enabled ELSE "true",
     minimize_to_tray |->
         IF Has(d, "minimize_to_tray") THEN d.minimize_to_tray ELSE "true",
     show_notification |->
         IF Has(d, "show_notification") THEN d.show_notification ELSE "true"]

DeserializeApiKey(d) ==
    IF Has(d, "api_key") THEN d.api_key ELSE ""

DeserializeConfig(d) ==
    [server |-> IF Has(d, "server") THEN DeserializeServer(d.server)
                ELSE ServerConfigDefault,
     client |-> IF Has(d, "client") THEN DeserializeClient(d.client)
                ELSE ClientConfigDefault,
     api_key |-> DeserializeApiKey(d),
     tray |-> IF Has(d, "tray") THEN DeserializeTray(d.tray)
              ELSE TrayConfigDefault]

\* SerializeConfig with an empty host left out of the document
\* (skip_serializing_if = "String::is_empty")
SerializeConfigSkippingEmptyHost(c) ==
    [server |-> IF c.server.host = <<>> THEN [port |-> c.server.port]
                ELSE [host |-> c.server.host, port |-> c.server.port],
     client |-> [name |-> c.client.name,
                 auto_register |-> c.client.auto_register,
                 requested_scopes |-> c.client.requested_scopes],
     api_key |-> c.api_key,
     tray |-> [enabled |-> c.tray.enabled,
               minimize_to_tray |-> c.tray.minimize_to_tray,
               show_notification |-> c.tray.show_notification]]

SerializeConfig(c) ==
    [server |-> [host |-> c.server.host, port |-> c.server.port],
     client |-> [name |-> c.client.name,
                 auto_register |-> c.client.auto_register,
                 requested_scopes |-> c.client.requested_scopes],
     api_key |-> c.api_key,
     tray |-> [enabled |-> c.tray.enabled,
               minimize_to_tray |-> c.tray.minimize_to_tray,
               show_notification |-> c.tray.show_notification]]

RECURSIVE SumLen(_)
SumLen(s) == IF s = <<>> THEN 0 ELSE Len(Head(s)) + 4 + SumLen(Tail(s))

\* bytes of the pretty-printed document, up to the part every document shares
SerializedLen(c) ==
    Len(c.server.host) + Len(c.server.port) + Len(c.client.name)
    + Len(c.client.auto_register) + SumLen(c.client.requested_scopes)
    + Len(c.api_key) + Len(c.tray.enabled) + Len(c.tray.minimize_to_tray)
    + Len(c.tray.show_notification)

(***************************************************************************)
(* main.rs: extract_host_port.                                             *)
(***************************************************************************)
\* one .strip_prefix(p) link of the chain: the prefix is removed when present
strip_prefix(s, p) ==
    IF Len(s) >= Len(p) /\ SubSeq(s, 1, Len(p)) = p
    THEN SubSeq(s, Len(p) + 1, Len(s))
    ELSE s

\* url.strip_prefix("http://").strip_prefix("https://")
\*    .strip_prefix("ws://").strip_prefix("wss://")
clean_url(url) ==
    strip_prefix(strip_prefix(strip_prefix(strip_prefix(url, HttpPrefix),
                                           HttpsPrefix), WsPrefix), WssPrefix)

\* index of the last occurrence of ch among the first n characters, 0 if none
RECURSIVE rfindUpTo(_, _, _)
rfindUpTo(s, ch, n) ==
    IF n = 0 THEN 0
    ELSE IF s[n] = ch THEN n
    ELSE rfindUpTo(s, ch, n - 1)

\* rfind replaced by find: the index of the first occurrence of ch, 0 if none
find(s, ch) ==
    IF \E i \in 1..Len(s) : s[i] = ch
    THEN CHOOSE i \in 1..Len(s) :
             s[i] = ch /\ \A j \in 1..(i - 1) : s[j] # ch
    ELSE 0

rfind(s, ch) == rfindUpTo(s, ch, Len(s))

split_host_port(clean) ==
    LET pos == rfind(clean, ":")
    IN  IF pos # 0
        THEN [host |-> SubSeq(clean, 1, pos - 1),
              port |-> SubSeq(clean, pos + 1, Len(clean))]
        ELSE [host |-> clean, port |-> DefaultPort]

extract_host_port(url) == split_host_port(clean_url(url))


\* apply_registration with client.name left as loaded
apply_registration_keeping_name(config, server_url, register) ==
    LET hp == extract_host_port(server_url)
    IN  [config EXCEPT !.server.host = hp.host,
                       !.server.port = hp.port,
                       !.api_key = register.api_key]

\* apply_registration on a fresh default configuration instead of the one
\* loaded
apply_registration_to_default(config, server_url, register) ==
    LET hp == extract_host_port(server_url)
    IN  [PrizmConfigDefault EXCEPT !.server.host = hp.host,
                                   !.server.port = hp.port,
                                   !.client.name = register.client_id,
                                   !.api_key = register.api_key]

\* lines 108-113 of register_client: the fields a registration overwrites
apply_registration(config, server_url, register) ==
    LET hp == extract_host_port(server_url)
    IN  [config EXCEPT !.server.host = hp.host,
                       !.server.port = hp.port,
                       !.client.name = register.client_id,
                       !.api_key = register.api_key]

(***************************************************************************)
(* The configuration file.  kind is "absent" (no file), "json" (a          *)
(* well-formed document, in doc), "empty" (created or truncated and not    *)
(* yet written) or "garbage" (content serde_json rejects); len is the      *)
(* length of what a command has written.                                   *)
(***************************************************************************)
AbsentFile == [kind |-> "absent", doc |-> <<>>, len |-> 0]
EmptyFile == [kind |-> "empty", doc |-> <<>>, len |-> 0]
GarbageFile(n) == [kind |-> "garbage", doc |-> <<>>, len |-> n]
JsonFile(d, n) == [kind |-> "json", doc |-> d, len |-> n]
WrittenFile(c) == JsonFile(SerializeConfig(c), SerializedLen(c))

\* write_all that leaves the server section of a configuration written since
\* the open in place
write_all_keeping_server(f, c) ==
    IF f.kind = "json"
    THEN JsonFile([SerializeConfig(c) EXCEPT !.server = f.doc.server], f.len)
    ELSE WrittenFile(c)

\* fs::write's write_all at offset 0 of the file it opened with truncation:
\* what was written behind it since then stays beyond the new content's end
write_all(f, c) ==
    IF f.len <= SerializedLen(c) THEN WrittenFile(c)
    ELSE GarbageFile(f.len)

(***************************************************************************)
(* Results of the commands: Result<T, String>.                             *)
(***************************************************************************)
Pending ==
    [tag |-> "Pending", msg |-> "", key |-> "", healthy |-> FALSE,
     config |-> NoConfig]
Err(m) == [Pending EXCEPT !.tag = "Err", !.msg = m]
OkUnit == [Pending EXCEPT !.tag = "Ok"]
OkKey(k) == [Pending EXCEPT !.tag = "Ok", !.key = k]
OkBool(b) == [Pending EXCEPT !.tag = "Ok", !.healthy = b]
OkConfig(c) == [Pending EXCEPT !.tag = "Ok", !.config = c]

(***************************************************************************)
(* Callers and the inputs they draw from.                                  *)
(***************************************************************************)
Procs == {"p1", "p2"}

NoScopes == [some |-> FALSE, v |-> <<>>]
SomeScopes(v) == [some |-> TRUE, v |-> v]
NoRegister == [client_id |-> "", api_key |-> ""]
NoHealth == [parsed |-> FALSE, status |-> ""]

\* the fields of a loaded configuration that main.rs 110-113 do not assign
LoadedFrame(c) ==
    [tray |-> c.tray, auto_register |-> c.client.auto_register,
     requested_scopes |-> c.client.requested_scopes]

IdleProc ==
    [pc |-> "idle", op |-> "none", name |-> "", server_url |-> <<>>,
     requested_scopes |-> NoScopes, config |-> NoConfig,
     loaded |-> LoadedFrame(NoConfig),
     health |-> NoHealth, register |-> NoRegister, result |-> Pending,
     gets |-> 0, posts |-> 0, writes |-> 0]

\* a configuration with every field away from its default, empty scopes and key
EditedConfig ==
    [server |-> [host |-> ExampleCom, port |-> Port8080],
     client |-> [name |-> "desk", auto_register |-> "false",
                 requested_scopes |-> <<>>],
     api_key |-> "",
     tray |-> [enabled |-> "false", minimize_to_tray |-> "false",
               show_notification |-> "false"]]

\* a configuration with a key nobody issued and a blank host
ForeignConfig ==
    [server |-> [host |-> <<>>, port |-> DefaultPort],
     client |-> [name |-> "laptop", auto_register |-> "true",
                 requested_scopes |-> <<"read", "write">>],
     api_key |-> "k0",
     tray |-> TrayConfigDefault]

SaveConfigs == {PrizmConfigDefault, EditedConfig, ForeignConfig}

RegisterNames == {"my-desktop"}
RegisterScopes == {NoScopes, SomeScopes(<<"admin">>)}
ServerUrls ==
    {HttpPrefix \o ExampleCom \o Colon \o Port8080,
     ExampleCom,
     HttpPrefix \o HostWord \o Colon}

\* what the server at the other end may answer
HealthBodies ==
    {[wellformed |-> FALSE, status |-> ""],
     [wellformed |-> TRUE, status |-> "ok"],
     [wellformed |-> TRUE, status |-> "degraded"]}
RegisterBodies ==
    {[wellformed |-> FALSE, client_id |-> "", api_key |-> ""],
     [wellformed |-> TRUE, client_id |-> "c1", api_key |-> "k1"],
     [wellformed |-> TRUE, client_id |-> "c2", api_key |-> "k2"]}

\* documents as a user leaves them after editing the file by hand
Restrict(f, S) == [k \in S |-> f[k]]
StoredDoc ==
    [server |-> [host |-> TenDotFive, port |-> Port9000],
     client |-> [name |-> "desk", auto_register |-> "false",
                 requested_scopes |-> <<"read", "write">>],
     api_key |-> "k0",
     tray |-> [enabled |-> "false", minimize_to_tray |-> "false",
               show_notification |-> "false"]]
PartialDocs ==
    UNION {{Restrict([server |-> s, client |-> c, api_key |-> StoredDoc.api_key,
                      tray |-> t], S) :
               s \in {Restrict(StoredDoc.server, F) :
                         F \in SUBSET {"host", "port"}},
               c \in {Restrict(StoredDoc.client, F) :
                         F \in SUBSET {"name", "auto_register", "requested_scopes"}},
               t \in {Restrict(StoredDoc.tray, F) :
                         F \in SUBSET {"enabled", "minimize_to_tray",
                                       "show_notification"}}} :
           S \in SUBSET {"server", "client", "api_key", "tray"}}

HandEdits ==
    {AbsentFile,
     GarbageFile(0),
     JsonFile(<<>>, 0),
     JsonFile([client |-> [name |-> "desk"], tray |-> [enabled |-> "false"]], 0),
     JsonFile([server |-> [port |-> Port9000], api_key |-> "k0"], 0)}

(***************************************************************************)
(* Ghost state.                                                            *)
(***************************************************************************)
NoSnapshot == [taken |-> FALSE, file |-> AbsentFile, dirExists |-> FALSE]
Snapshot == [taken |-> TRUE, file |-> file, dirExists |-> dirExists]

\* registered: a register_client call has returned Ok
\* edited:     the file was edited or deleted by hand
\* saved:      the configuration of the last write that completed, while the
\*             file still holds what that write left
HistoryInit ==
    [registered |-> FALSE, edited |-> FALSE,
     saved |-> [valid |-> FALSE, config |-> NoConfig]]

ResolverIdle ==
    [pc |-> "idle", url |-> <<>>, clean |-> <<>>, host |-> <<>>, port |-> <<>>]

Init ==
    /\ file = AbsentFile
    /\ dirExists = FALSE
    /\ proc = [p \in Procs |-> IdleProc]
    /\ before = NoSnapshot
    /\ history = HistoryInit
    /\ ops = 0
    /\ resolver = ResolverIdle

(***************************************************************************)
(* A command begins.  exclusive: the caller awaits each command before it  *)
(* issues the next, so a command begins only when none is in flight.       *)
(***************************************************************************)
CanStart(p, exclusive) ==
    /\ proc[p].pc = "idle"
    /\ ops < (IF exclusive THEN MaxOps ELSE MaxConcOps)
    /\ exclusive => \A q \in Procs : proc[q].pc = "idle"

Begin(p, exclusive, call) ==
    /\ CanStart(p, exclusive)
    /\ proc' = [proc EXCEPT ![p] = call]
    /\ before' = IF exclusive THEN Snapshot ELSE NoSnapshot
    /\ ops' = ops + 1
    /\ UNCHANGED <<file, dirExists, history, resolver>>

\* main.rs 69-72
StartLoadConfig(p, exclusive) ==
    Begin(p, exclusive, [IdleProc EXCEPT !.pc = "load", !.op = "load_config"])

\* main.rs 74-77
StartSaveConfig(p, exclusive) ==
    \E c \in SaveConfigs :
        Begin(p, exclusive,
              [IdleProc EXCEPT !.pc = "save", !.op = "save_config", !.config = c])

\* main.rs 80-85
StartRegisterClient(p, exclusive) ==
    \E n \in RegisterNames, u \in ServerUrls, s \in RegisterScopes :
        Begin(p, exclusive,
              [IdleProc EXCEPT !.pc = "health", !.op = "register_client",
                               !.name = n, !.server_url = u,
                               !.requested_scopes = s])

\* main.rs 119-121
StartTestConnection(p, exclusive) ==
    \E u \in ServerUrls :
        Begin(p, exclusive,
              [IdleProc EXCEPT !.pc = "health", !.op = "test_connection",
                               !.server_url = u])

(***************************************************************************)
(* A command returns: its result is set and it has no further step.        *)
(***************************************************************************)
Returned(p, r) == [proc EXCEPT ![p].pc = "done", ![p].result = r]

NoteReturn(p, r) ==
    IF proc[p].op = "register_client" /\ r.tag = "Ok"
    THEN [history EXCEPT !.registered = TRUE]
    ELSE history

\* the caller takes the result; the command's locals are dropped
Finish(p) ==
    /\ proc[p].pc = "done"
    /\ proc' = [proc EXCEPT ![p] = IdleProc]
    /\ UNCHANGED <<file, dirExists, before, history, ops, resolver>>

(***************************************************************************)
(* http_get(health_url) and the health check (main.rs 34-44, 85-92,        *)
(* 121-126).                                                               *)
(***************************************************************************)
\* HealthFails with test_connection reporting an unhealthy server instead of
\* the error
HealthFailsAsUnhealthy(p, m) ==
    /\ proc' = [(IF proc[p].op = "test_connection"
                 THEN Returned(p, OkBool(FALSE))
                 ELSE Returned(p, Err(m)))
                EXCEPT ![p].gets = @ + 1]
    /\ history' = history

\* HealthFails with the GET issued again instead of the error returned
HealthFailsRetrying(p, m) ==
    /\ proc' = [proc EXCEPT ![p].gets = @ + 1]
    /\ history' = history

HealthFails(p, m) ==
    /\ proc' = [Returned(p, Err(m)) EXCEPT ![p].gets = @ + 1]
    /\ history' = history

\* HealthPasses with the status ignored
HealthPassesAnyStatus(health) == health.parsed

\* main.rs 90 and 126: the test of the parsed status
HealthPasses(health) == health.status = "ok"

\* the health response parsed, and what each command does with it
HealthParsed(p, health) ==
    /\ proc' = [(IF proc[p].op = "test_connection"
                 THEN Returned(p, OkBool(HealthPasses(health)))
                 ELSE IF ~HealthPasses(health)
                 THEN Returned(p, Err("Server health check failed"))
                 ELSE [proc EXCEPT ![p].pc = "post"])
                EXCEPT ![p].gets = @ + 1, ![p].health = health]
    /\ history' = history

HealthCheck(p) ==
    /\ proc[p].pc = "health"
    /\ \/ HealthFails(p, "HTTP GET failed")
       \/ HealthFails(p, "Failed to read response")
       \/ \E body \in HealthBodies :
             IF ~body.wellformed
             THEN HealthFails(p, "Failed to parse health response")
             ELSE HealthParsed(p, [parsed |-> TRUE, status |-> body.status])
    /\ UNCHANGED <<file, dirExists, before, ops, resolver>>

(***************************************************************************)
(* http_post(register_url, request) and the parse of its response          *)
(* (main.rs 46-65, 94-103).                                                *)
(***************************************************************************)
\* PostFails with the failure ignored and the call going on to persist
PostFailsContinuing(p, m) ==
    proc' = [proc EXCEPT ![p].pc = "load", ![p].posts = @ + 1]

PostFails(p, m) ==
    proc' = [Returned(p, Err(m)) EXCEPT ![p].posts = @ + 1]

RegisterPost(p) ==
    /\ proc[p].pc = "post"
    /\ \/ PostFails(p, "HTTP POST failed")
       \/ PostFails(p, "Failed to read response")
       \/ \E body \in RegisterBodies :
             IF ~body.wellformed
             THEN PostFails(p, "Failed to parse register response")
             ELSE proc' = [proc EXCEPT
                              ![p].pc = "load",
                              ![p].posts = @ + 1,
                              ![p].register = [client_id |-> body.client_id,
                                               api_key |-> body.api_key]]
    /\ UNCHANGED <<file, dirExists, before, history, ops, resolver>>

(***************************************************************************)
(* PrizmConfig::load (config.rs 92-112), called by load_config and by      *)
(* register_client.                                                        *)
(***************************************************************************)
\* what the caller of PrizmConfig::load does with its result r (loaded is a
\* ghost: what register_client's load returned for the fields it keeps)
AfterLoad(p, r) ==
    IF proc[p].op = "load_config" \/ r.tag = "Err"
    THEN Returned(p, r)
    ELSE [proc EXCEPT
             ![p].pc = "save",
             ![p].loaded = LoadedFrame(r.config),
             ![p].config = apply_registration(r.config, proc[p].server_url,
                                              proc[p].register)]

\* LoadCheck writing the default configuration when there is no file
LoadCheckCreatingFile(p) ==
    /\ proc[p].pc = "load"
    /\ \/ /\ proc' = AfterLoad(p, Err("Failed to create config directory"))
          /\ UNCHANGED <<file, dirExists>>
       \/ /\ dirExists' = TRUE
          /\ proc' = IF file.kind = "absent"
                     THEN AfterLoad(p, OkConfig(PrizmConfigDefault))
                     ELSE [proc EXCEPT ![p].pc = "read"]
          /\ file' = IF file.kind = "absent"
                     THEN WrittenFile(PrizmConfigDefault) ELSE file
    /\ UNCHANGED <<before, history, ops, resolver>>

\* config.rs 93-105: create_dir_all, then the test for the file
LoadCheck(p) ==
    /\ proc[p].pc = "load"
    /\ \/ /\ proc' = AfterLoad(p, Err("Failed to create config directory"))
          /\ UNCHANGED dirExists
       \/ /\ dirExists' = TRUE
          /\ proc' = IF file.kind = "absent"
                     THEN AfterLoad(p, OkConfig(PrizmConfigDefault))
                     ELSE [proc EXCEPT ![p].pc = "read"]
    /\ UNCHANGED <<file, before, history, ops, resolver>>

\* serde_json::from_str(&content) on what read_to_string returned
from_str(f) ==
    IF f.kind = "json" THEN OkConfig(DeserializeConfig(f.doc))
    ELSE Err("Failed to parse config")

\* LoadRead that removes a file it cannot parse
LoadReadResetting(p) ==
    /\ proc[p].pc = "read"
    /\ \/ /\ proc' = AfterLoad(p, Err("Failed to read config"))
          /\ file' = file
       \/ /\ file.kind # "absent"
          /\ proc' = AfterLoad(p, from_str(file))
          /\ file' = IF from_str(file).tag = "Err" THEN AbsentFile ELSE file
    /\ UNCHANGED <<dirExists, before, history, ops, resolver>>

\* config.rs 107-111
LoadRead(p) ==
    /\ proc[p].pc = "read"
    /\ \/ proc' = AfterLoad(p, Err("Failed to read config"))
       \/ /\ file.kind # "absent"
          /\ proc' = AfterLoad(p, from_str(file))
    /\ UNCHANGED <<file, dirExists, before, history, ops, resolver>>

(***************************************************************************)
(* PrizmConfig::save (config.rs 114-130), called by save_config and by     *)
(* register_client.  fs::write opens the file with truncation and then     *)
(* writes the content.                                                     *)
(***************************************************************************)
SaveResult(p) ==
    IF proc[p].op = "register_client" THEN OkKey(proc[p].register.api_key)
    ELSE OkUnit

\* config.rs 115-126: create_dir_all, to_string_pretty, the open of fs::write
SaveOpen(p) ==
    /\ proc[p].pc = "save"
    /\ \/ /\ proc' = Returned(p, Err("Failed to create config directory"))
          /\ UNCHANGED <<file, dirExists, history>>
       \/ /\ dirExists' = TRUE
          /\ proc' = Returned(p, Err("Failed to write config"))
          /\ UNCHANGED <<file, history>>
       \/ /\ dirExists' = TRUE
          /\ file' = EmptyFile
          /\ history' = [history EXCEPT !.saved = HistoryInit.saved]
          /\ proc' = [proc EXCEPT ![p].pc = "write"]
    /\ UNCHANGED <<before, ops, resolver>>

\* config.rs 126-129: the write of fs::write, and the return
SaveWrite(p) ==
    /\ proc[p].pc = "write"
    /\ \/ /\ proc' = Returned(p, Err("Failed to write config"))
          /\ UNCHANGED <<file, history>>
       \/ /\ file' = write_all(file, proc[p].config)
          /\ proc' = [Returned(p, SaveResult(p)) EXCEPT ![p].writes = @ + 1]
          /\ history' =
                [NoteReturn(p, SaveResult(p)) EXCEPT
                    !.saved = [valid |-> file'.kind = "json",
                               config |-> IF file'.kind = "json"
                                          THEN proc[p].config ELSE NoConfig]]
    /\ UNCHANGED <<dirExists, before, ops, resolver>>

(***************************************************************************)
(* The user edits or deletes the configuration file between commands.      *)
(***************************************************************************)
HandEdit ==
    /\ \A q \in Procs : proc[q].pc = "idle"
    /\ ops < MaxOps
    /\ \E f \in HandEdits :
          /\ f # file
          /\ file' = f
          /\ dirExists' = (dirExists \/ f.kind # "absent")
    /\ history' = [history EXCEPT !.edited = TRUE, !.saved = HistoryInit.saved]
    /\ ops' = ops + 1
    /\ UNCHANGED <<proc, before, resolver>>

(***************************************************************************)
(* Spec: one caller that awaits each command before issuing the next.      *)
(***************************************************************************)
Caller == "p1"

Step(p) ==
    \/ HealthCheck(p)
    \/ RegisterPost(p)
    \/ LoadCheck(p)
    \/ LoadRead(p)
    \/ SaveOpen(p)
    \/ SaveWrite(p)
    \/ Finish(p)

Next ==
    \/ StartLoadConfig(Caller, TRUE)
    \/ StartSaveConfig(Caller, TRUE)
    \/ StartRegisterClient(Caller, TRUE)
    \/ StartTestConnection(Caller, TRUE)
    \/ Step(Caller)
    \/ HandEdit

Spec == Init /\ [][Next]_vars

(***************************************************************************)
(* ConcSpec: callers that issue commands without waiting for one another;  *)
(* the steps of their commands interleave.  No lock guards the file.       *)
(***************************************************************************)
ConcNext ==
    \E p \in Procs :
        \/ StartLoadConfig(p, FALSE)
        \/ StartSaveConfig(p, FALSE)
        \/ StartRegisterClient(p, FALSE)
        \/ StartTestConnection(p, FALSE)
        \/ Step(p)

ConcSpec == Init /\ [][ConcNext]_vars

(***************************************************************************)
(* LoadSpec: PrizmConfig::load on every document a hand edit can leave:    *)
(* any subset of the fields absent, no file at all, content that is no     *)
(* JSON.                                                                   *)
(***************************************************************************)
LoadInit ==
    /\ file \in {JsonFile(d, 0) : d \in PartialDocs}
                \cup {AbsentFile, GarbageFile(0)}
    /\ dirExists \in {file.kind # "absent", TRUE}
    /\ proc = [p \in Procs |-> IdleProc]
    /\ before = NoSnapshot
    /\ history = [HistoryInit EXCEPT !.edited = TRUE]
    /\ ops = 0
    /\ resolver = ResolverIdle

LoadNext ==
    \/ StartLoadConfig(Caller, TRUE)
    \/ LoadCheck(Caller)
    \/ LoadRead(Caller)
    \/ Finish(Caller)

LoadSpec == LoadInit /\ [][LoadNext]_vars

(***************************************************************************)
(* ResolveSpec: extract_host_port on addresses with up to MaxPrefixes      *)
(* scheme prefixes in front of a host, a host:port or something else.      *)
(***************************************************************************)
Schemes == {HttpPrefix, HttpsPrefix, WsPrefix, WssPrefix}

RECURSIVE PrefixStacks(_)
PrefixStacks(n) ==
    IF n = 0 THEN {<<>>}
    ELSE PrefixStacks(n - 1)
         \cup {s \o t : s \in Schemes, t \in PrefixStacks(n - 1)}

AddressBodies ==
    {ExampleCom \o Colon \o Port8080,
     ExampleCom,
     TenDotFive \o Colon \o Port9000,
     HostWord,
     <<"h", ":", "1">>,
     <<"[", ":", ":", "1", "]", ":", "8", "0">>,
     <<"h", ":", "1", "/", "a", ":", "b">>,
     HostWord \o Colon,
     <<>>}

Addresses == {p \o b : p \in PrefixStacks(MaxPrefixes), b \in AddressBodies}

ResolveInit ==
    /\ file = AbsentFile
    /\ dirExists = FALSE
    /\ proc = [p \in Procs |-> IdleProc]
    /\ before = NoSnapshot
    /\ history = HistoryInit
    /\ ops = 0
    /\ resolver \in {[ResolverIdle EXCEPT !.pc = "called", !.url = u] :
                        u \in Addresses}

\* main.rs 131-135
ResolveStrip ==
    /\ resolver.pc = "called"
    /\ resolver' = [resolver EXCEPT !.pc = "stripped",
                                    !.clean = clean_url(resolver.url)]
    /\ UNCHANGED <<file, dirExists, proc, before, history, ops>>

\* main.rs 138-144
ResolveSplit ==
    /\ resolver.pc = "stripped"
    /\ resolver' = [resolver EXCEPT
                       !.pc = "returned",
                       !.host = split_host_port(resolver.clean).host,
                       !.port = split_host_port(resolver.clean).port]
    /\ UNCHANGED <<file, dirExists, proc, before, history, ops>>

ResolveNext == ResolveStrip \/ ResolveSplit

ResolveSpec == ResolveInit /\ [][ResolveNext]_vars

(***************************************************************************)
(* Properties.  Under Spec the caller's command, once returned, stays in   *)
(* proc[Caller] together with its locals until the caller takes the        *)
(* result, and before holds the file as it was when the command began.     *)
(***************************************************************************)
call == proc[Caller]

ReturnedFrom(op) == call.pc = "done" /\ call.op = op

\* the failures of the file system itself: a directory that cannot be
\* created, a file that cannot be read, opened or written
IoFaults ==
    {"Failed to create config directory", "Failed to read config",
     "Failed to write config"}

\* the errors step 4 of register_client can return
PersistErrors == IoFaults \cup {"Failed to parse config"}

\* the configuration a load of the file as it is would return
Persisted == DeserializeConfig(file.doc)

\* steps 1-3 of a returned register_client succeeded: the server issued
\* call.register
Issued == ReturnedFrom("register_client") /\ call.posts = 1 /\ call.register # NoRegister

\* what claim C1 promises of a returned registration
RegistrationPersisted ==
    /\ call.result = OkKey(call.register.api_key)
    /\ file.kind = "json"
    /\ Persisted.client.name = call.register.client_id
    /\ Persisted.api_key = call.register.api_key
    /\ Persisted.server = extract_host_port(call.server_url)

C2_UnhealthyLeavesConfig ==
    (ReturnedFrom("register_client") /\ call.health.parsed
        /\ call.health.status # "ok")
    => /\ call.result = Err("Server health check failed")
       /\ call.posts = 0
       /\ call.writes = 0
       /\ before.taken
       /\ file = before.file

\* a health-check failure with a configuration already on disk
C2_Witness ==
    /\ ReturnedFrom("register_client")
    /\ call.result = Err("Server health check failed")
    /\ call.health.status = "degraded"
    /\ file.kind = "json"

\* C3 as claimed: when the server issued a key and step 4 fails, the error
\* is a persistence error and the caller still learns the issued api_key.
C3_PersistFailureStillYieldsKey ==
    (Issued /\ call.result.tag = "Err")
    => /\ call.result.msg \in PersistErrors
       /\ call.result.key = call.register.api_key

\* the api_key on disk, in a state where the file can be loaded
Loadable == file.kind \in {"absent", "json"}
PersistedApiKey == IF file.kind = "absent" THEN "" ELSE DeserializeApiKey(file.doc)

\* C4 as claimed: from no configuration file, after any sequence of the
\* four commands (the file never edited or deleted by hand), the persisted
\* api_key is empty exactly when no register_client has returned Ok.
C4_ApiKeyEmptyIffNeverRegistered ==
    (~history.edited /\ Loadable)
    => (PersistedApiKey = "" <=> ~history.registered)

\* C5 as claimed: after any sequence of save_config and register_client
\* calls, every successful load returns a non-empty host and a non-empty
\* port.
C5_LoadedHostPortNonEmpty ==
    (ReturnedFrom("load_config") /\ call.result.tag = "Ok" /\ ~history.edited)
    => /\ call.result.config.server.host # <<>>
       /\ call.result.config.server.port # <<>>

\* the value claim C6 documents for document d: a field that is present as
\* stored, a field that is absent (itself or the object holding it) at its
\* documented default
Documented(d, top, f, default) ==
    IF Has(d, top) /\ Has(d[top], f) THEN d[top][f] ELSE default

DocumentedConfig(d) ==
    [server |->
        [host |-> Documented(d, "server", "host", DefaultHost),
         port |-> Documented(d, "server", "port", DefaultPort)],
     client |->
        [name |-> Documented(d, "client", "name", "Prizm Tauri Client"),
         auto_register |-> Documented(d, "client", "auto_register", "true"),
         requested_scopes |->
             Documented(d, "client", "requested_scopes", <<"default">>)],
     api_key |-> IF Has(d, "api_key") THEN d.api_key ELSE "",
     tray |->
        [enabled |-> Documented(d, "tray", "enabled", "true"),
         minimize_to_tray |-> Documented(d, "tray", "minimize_to_tray", "true"),
         show_notification |->
             Documented(d, "tray", "show_notification", "true")]]

\* C6 as claimed: a load of a document with any subset of its fields absent
\* returns each absent field at its documented default (requested_scopes
\* ["default"]) and each present field as stored.
C6_AbsentFieldsGetDocumentedDefaults ==
    (ReturnedFrom("load_config") /\ call.result.tag = "Ok" /\ file.kind = "json")
    => call.result.config = DocumentedConfig(file.doc)

\* C7: a successful load returns the configuration of the last write that
\* completed (save_config's argument or the configuration register_client
\* built), and when save_config or register_client returns Ok the file holds
\* a document that reads back as the configuration that call saved.
C7_LoadReturnsLastWrite ==
    /\ (ReturnedFrom("load_config") /\ call.result.tag = "Ok"
           /\ history.saved.valid)
       => call.result.config = history.saved.config
    /\ (call.pc = "done" /\ call.op \in {"save_config", "register_client"}
           /\ call.result.tag = "Ok")
       => /\ file.kind = "json"
          /\ Persisted = call.config
          /\ history.saved = [valid |-> TRUE, config |-> call.config]

\* a load that returned a saved configuration with empty scopes and key ...
C7_Witness ==
    /\ ReturnedFrom("load_config")
    /\ history.saved.valid
    /\ call.result = OkConfig(EditedConfig)
    /\ call.result.config.client.requested_scopes = <<>>
    /\ call.result.config.api_key = ""

\* C8: a load_config that begins with no configuration file returns exactly
\* the documented defaults (or the error of a directory that cannot be
\* created) and there is still no file when it returns.
C8_LoadOfNoFileReturnsDefaults ==
    (ReturnedFrom("load_config") /\ before.file.kind = "absent")
    => /\ file.kind = "absent"
       /\ \/ call.result = Err("Failed to create config directory")
          \/ /\ call.result.tag = "Ok"
             /\ call.result.config.server =
                    [host |-> DefaultHost, port |-> DefaultPort]
             /\ call.result.config.client =
                    [name |-> "Prizm Tauri Client", auto_register |-> "true",
                     requested_scopes |-> <<"default">>]
             /\ call.result.config.api_key = ""
             /\ call.result.config.tray =
                    [enabled |-> "true", minimize_to_tray |-> "true",
                     show_notification |-> "true"]

\* a load that returned Ok with no file, before or after, in a directory
\* it created
C8_Witness ==
    /\ ReturnedFrom("load_config")
    /\ before.file.kind = "absent"
    /\ ~before.dirExists
    /\ dirExists
    /\ call.result.tag = "Ok"
    /\ file.kind = "absent"

(***************************************************************************)
(* Properties of extract_host_port, under ResolveSpec.                     *)
(***************************************************************************)
StartsWith(s, p) == Len(s) >= Len(p) /\ SubSeq(s, 1, Len(p)) = p
Without(s, p) == SubSeq(s, Len(p) + 1, Len(s))
HasScheme(s) == \E p \in Schemes : StartsWith(s, p)
HasColon(s) == \E i \in 1..Len(s) : s[i] = ":"

\* the address with its first recognized scheme prefix, if any, removed
WithoutFirstScheme(s) ==
    IF HasScheme(s) THEN Without(s, CHOOSE p \in Schemes : StartsWith(s, p))
    ELSE s

Resolved(url, host, port) ==
    resolver.url = url => (resolver.host = host /\ resolver.port = port)

\* C9: the result splits the remainder at its last ':' (host before, port
\* after, no ':' in the port), or is (remainder, "4127") when the remainder
\* has no ':'; the remainder of an address with at most one scheme prefix
\* is the address without that prefix; the four documented examples, an
\* IPv6 literal and a URL with a path come out as the rule says.
C9_SplitsAtLastColon ==
    resolver.pc = "returned"
    => /\ IF HasColon(resolver.clean)
          THEN /\ resolver.host \o Colon \o resolver.port = resolver.clean
               /\ ~HasColon(resolver.port)
          ELSE /\ resolver.host = resolver.clean
               /\ resolver.port = <<"4", "1", "2", "7">>
       /\ ~HasScheme(WithoutFirstScheme(resolver.url))
          => resolver.clean = WithoutFirstScheme(resolver.url)
       /\ Resolved(HttpPrefix \o ExampleCom \o Colon \o Port8080,
                   ExampleCom, Port8080)
       /\ Resolved(ExampleCom, ExampleCom, DefaultPort)
       /\ Resolved(HttpsPrefix \o TenDotFive \o Colon \o Port9000,
                   TenDotFive, Port9000)
       /\ Resolved(WsPrefix \o HostWord, HostWord, DefaultPort)
       /\ Resolved(<<"[", ":", ":", "1", "]", ":", "8", "0">>,
                   <<"[", ":", ":", "1", "]">>, <<"8", "0">>)
       /\ Resolved(HttpPrefix \o <<"h", ":", "1", "/", "a", ":", "b">>,
                   <<"h", ":", "1", "/", "a">>, <<"b">>)

\* a resolved address whose remainder has a ':' before its last ':'
C9_Witness ==
    /\ resolver.pc = "returned"
    /\ resolver.url = WssPrefix \o <<"h", ":", "1", "/", "a", ":", "b">>
    /\ resolver.host = <<"h", ":", "1", "/", "a">>
    /\ resolver.port = <<"b">>

\* C10 as claimed: at most one recognized prefix is removed; of two in a row
\* only the first is removed and the second stays in the string that is
\* split; an address with no recognized prefix is split unchanged.
C10_StripsOnlyFirstScheme ==
    resolver.pc \in {"stripped", "returned"}
    => resolver.clean = WithoutFirstScheme(resolver.url)

(***************************************************************************)
(* The three outcomes of the health probe.                                 *)
(***************************************************************************)
\* the messages of the ? operators of main.rs 86-88 and 121-123
HealthErrors ==
    {"HTTP GET failed", "Failed to read response",
     "Failed to parse health response"}

Probed(c) == c.gets = 1
Healthy(c) == c.health.parsed /\ c.health.status = "ok"
Unhealthy(c) == c.health.parsed /\ c.health.status # "ok"
ProbeFailed(c) == ~c.health.parsed

\* C11: test_connection returns Ok(true) exactly when the health body parsed
\* with status "ok", Ok(false) when it parsed with another status, and an
\* error (never Ok(false)) when the transport failed or the body was
\* malformed; in register_client the same three outcomes continue to the
\* POST, return "Server health check failed", and return the transport or
\* parse error.
C11_ProbeOutcomeClasses ==
    /\ ReturnedFrom("test_connection") =>
          /\ Probed(call)
          /\ (call.result = OkBool(TRUE)) <=> Healthy(call)
          /\ Unhealthy(call) => call.result = OkBool(FALSE)
          /\ ProbeFailed(call) =>
                /\ call.result.tag = "Err"
                /\ call.result.msg \in HealthErrors
    /\ (call.op = "register_client" /\ Probed(call)) =>
          /\ Healthy(call) => (call.pc = "post" \/ call.posts = 1)
          /\ Unhealthy(call) =>
                /\ call.pc = "done"
                /\ call.result = Err("Server health check failed")
                /\ call.posts = 0
          /\ ProbeFailed(call) =>
                /\ call.pc = "done"
                /\ call.result.tag = "Err"
                /\ call.result.msg \in HealthErrors
                /\ call.posts = 0

C11_Witness ==
    /\ ReturnedFrom("test_connection")
    /\ call.health = [parsed |-> TRUE, status |-> "degraded"]
    /\ call.result = OkBool(FALSE)

(***************************************************************************)
(* Which step of register_client an error came from.                       *)
(***************************************************************************)
\* the step whose ? returned the error of a failed register_client call c:
\* main.rs 86 and 90-92 (health check), 87-88 and 102-103 (response
\* parsing), 100 (registration POST), 105 and 114 (persistence)
FailedStep(c) ==
    IF c.posts = 0
    THEN (IF c.result.msg = "Failed to parse health response"
          THEN "parsing" ELSE "health")
    ELSE IF c.register = NoRegister
    THEN (IF c.result.msg = "Failed to parse register response"
          THEN "parsing" ELSE "registration")
    ELSE "persistence"

FailedRegister(p) ==
    /\ proc[p].pc = "done"
    /\ proc[p].op = "register_client"
    /\ proc[p].result.tag = "Err"

\* C12: the error of a failed register_client identifies the step that
\* failed: two failed calls that return the same message failed in the same
\* step.
C12_ErrorNamesItsStep ==
    \A p, q \in Procs :
        (/\ FailedRegister(p)
         /\ FailedRegister(q)
         /\ proc[p].result.msg = proc[q].result.msg)
        => FailedStep(proc[p]) = FailedStep(proc[q])

(***************************************************************************)
(* A load that runs while another caller's save is between its open and    *)
(* its write.                                                              *)
(***************************************************************************)
Writing(q) == proc[q].pc = "write"

\* p's fs::read_to_string returns the content of the file in this step
Reads(p) ==
    /\ proc[p].pc = "read"
    /\ proc'[p].pc # "read"
    /\ proc'[p].result.msg # "Failed to read config"

\* C13: a load that reads the file while a save of another caller is in
\* progress observes a complete configuration, never an empty or partial
\* file, and so does not fail with a parse error.
C13_ReaderSeesWholeFile ==
    [][\A p, q \in Procs :
          (p # q /\ Writing(q) /\ Reads(p))
          => (file.kind = "json" /\ proc'[p].result.msg # "Failed to parse config")]_vars

(***************************************************************************)
(* The order of the steps of register_client.                              *)
(***************************************************************************)
RegistrationParsed(c) == c.posts = 1 /\ c.register # NoRegister
Untouched == file = before.file /\ dirExists = before.dirExists

\* C14: register_client runs its steps in order (health GET, POST, parse,
\* load, save, return): the POST is issued only after a health response with
\* status "ok" was parsed, the file is touched only after the registration
\* response was parsed, and a call that failed at a step returns an error
\* with none of the later steps' effects.
C14_HandshakeOrder ==
    call.op = "register_client" =>
       /\ call.pc = "health" => (call.gets = 0 /\ call.posts = 0)
       /\ call.pc = "post" => (call.gets = 1 /\ call.posts = 0)
       /\ call.posts = 1 => (call.gets = 1 /\ Healthy(call))
       /\ call.pc \in {"load", "read", "save", "write"} =>
             (RegistrationParsed(call) /\ call.writes = 0)
       /\ call.pc \in {"health", "post", "load"} => Untouched
       /\ call.pc \in {"read", "save"} => file = before.file
       /\ call.writes = 1 =>
             (call.pc = "done" /\ RegistrationParsed(call)
              /\ call.result = OkKey(call.register.api_key))
       /\ (call.pc = "done" /\ call.result.tag = "Ok") =>
             (call.gets = 1 /\ call.posts = 1 /\ call.writes = 1)
       /\ (call.pc = "done" /\ ~RegistrationParsed(call)) =>
             (call.result.tag = "Err" /\ call.writes = 0 /\ Untouched)
       /\ (call.pc = "done" /\ ~Healthy(call)) => call.posts = 0
       /\ (call.pc = "done"
           /\ call.result.msg \in {"Failed to read config",
                                   "Failed to parse config"}) =>
             (call.writes = 0 /\ file = before.file)

\* the POST failed after a passed health check, and nothing was persisted
C14_Witness ==
    /\ ReturnedFrom("register_client")
    /\ Healthy(call)
    /\ call.result = Err("HTTP POST failed")
    /\ before.file.kind = "json"
    /\ file = before.file

(***************************************************************************)
(* Two register_client calls in flight at once.                            *)
(***************************************************************************)
Registered(p) ==
    /\ proc[p].pc = "done"
    /\ proc[p].op = "register_client"
    /\ proc[p].result.tag = "Ok"

BothRegistered == \A p \in Procs : Registered(p)

OwnKeys == \A p \in Procs : proc[p].result = OkKey(proc[p].register.api_key)

\* the file holds exactly what one of the calls wrote
HoldsOneWrite == \E p \in Procs : file = WrittenFile(proc[p].config)

\* C15: when two concurrent register_client calls have both
\* succeeded, each returned its own api_key and the file holds exactly the
\* configuration one of them wrote (the one whose save ran last).
C15_LastWriteWins == BothRegistered => (OwnKeys /\ HoldsOneWrite)

(***************************************************************************)
(* How many requests and writes one call issues.                           *)
(***************************************************************************)
\* C16: no step is retried: a call issues at most one GET /health, one
\* POST /auth/register and one write of the file; a returned
\* test_connection has issued exactly one GET and nothing else, and a
\* register_client that failed returned at its first failed attempt.
C16_NoRetries ==
    /\ \A p \in Procs :
          proc[p].gets <= 1 /\ proc[p].posts <= 1 /\ proc[p].writes <= 1
    /\ ReturnedFrom("test_connection") =>
          (call.gets = 1 /\ call.posts = 0 /\ call.writes = 0)
    /\ call.op \in {"load_config", "save_config"} =>
          (call.gets = 0 /\ call.posts = 0)
    /\ (ReturnedFrom("register_client") /\ call.result.tag = "Err") =>
          /\ call.gets = 1
          /\ call.writes = 0
          /\ call.posts = (IF Healthy(call) THEN 1 ELSE 0)

C16_Witness ==
    /\ ReturnedFrom("register_client")
    /\ call.result = OkKey("k2")
    /\ call.gets = 1
    /\ call.posts = 1
    /\ call.writes = 1

\* the four fields a registration overwrites are those of p's registration
FromRegistration(c, p) ==
    /\ c.server = extract_host_port(proc[p].server_url)
    /\ c.client.name = proc[p].register.client_id
    /\ c.api_key = proc[p].register.api_key

\* C17: when two concurrent register_client calls have both succeeded and
\* the file holds a whole write, its host, port, client.name and api_key
\* all come from one and the same of the two registrations.
C17_FieldsFromOneRegistration ==
    (BothRegistered /\ file.kind = "json") =>
        \E p \in Procs : FromRegistration(Persisted, p)

\* two registrations that differ in every overwritten field, the first kept
C17_Witness ==
    /\ BothRegistered
    /\ file.kind = "json"
    /\ proc["p1"].register = [client_id |-> "c1", api_key |-> "k1"]
    /\ proc["p2"].register = [client_id |-> "c2", api_key |-> "k2"]
    /\ extract_host_port(proc["p1"].server_url).host
          # extract_host_port(proc["p2"].server_url).host
    /\ extract_host_port(proc["p1"].server_url).port
          # extract_host_port(proc["p2"].server_url).port
    /\ FromRegistration(Persisted, "p1")

(***************************************************************************)
(* What a registration leaves as it loaded it.                             *)
(***************************************************************************)
\* C18: when the file holds what a successful register_client wrote, host,
\* port, client.name and api_key are those of the registration and tray.*,
\* client.auto_register and client.requested_scopes are the values its load
\* returned (not the requested_scopes argument), also when another caller's
\* save_config wrote other values between that load and the save.
C18_RegistrationFrame ==
    \A p \in Procs :
        (Registered(p) /\ file = WrittenFile(proc[p].config)) =>
            /\ FromRegistration(Persisted, p)
            /\ LoadedFrame(Persisted) = proc[p].loaded

\* the only two commands: p2's save_config of other tray values completed
\* after p1's load, and p1's save put back the values it had loaded; the
\* scopes p1 requested are not stored
C18_Witness ==
    /\ ops = 2
    /\ Registered("p1")
    /\ proc["p1"].requested_scopes = SomeScopes(<<"admin">>)
    /\ proc["p2"].pc = "done"
    /\ proc["p2"].op = "save_config"
    /\ proc["p2"].result = OkUnit
    /\ proc["p2"].config = EditedConfig
    /\ proc["p1"].loaded = LoadedFrame(PrizmConfigDefault)
    /\ file = WrittenFile(proc["p1"].config)
    /\ Persisted.tray = TrayConfigDefault
    /\ Persisted.client.requested_scopes = <<"default">>

(***************************************************************************)
(* Which commands write the configuration file.                            *)
(***************************************************************************)
ReadOnlyOps == {"load_config", "test_connection"}

\* C19: load_config and test_connection leave the existence and the content
\* of the file as they found it, at every step and whether they succeed or
\* fail; while a command runs the file differs from what it was at the
\* start only under save_config or under a register_client whose health
\* check, POST and parse succeeded.
C19_ReadOnlyCommands ==
    /\ call.op \in ReadOnlyOps => file = before.file
    /\ (call.op # "none" /\ file # before.file) =>
          \/ call.op = "save_config"
          \/ /\ call.op = "register_client"
             /\ Healthy(call)
             /\ RegistrationParsed(call)
             /\ call.pc \in {"write", "done"}

\* load_config failed on a malformed file and left it in place
C19_Witness ==
    /\ ReturnedFrom("load_config")
    /\ call.result = Err("Failed to parse config")
    /\ file.kind = "garbage"
    /\ file = before.file

=============================================================================
